---- MODULE Spec2Model ----
(***************************************************************************)
(* Funnel Report ETL Pipeline: the funnel table builder of                 *)
(* report_engine.py (aggregate_stages, _pct, build_report_table) and the   *)
(* per-entity delivery loop of run_reports.py (run).                       *)
(*                                                                         *)
(* Two specifications share the variables:                                 *)
(*   Spec     the four row-sets handed to the builder are grown edit by    *)
(*            edit from a blank data source, then aggregate_stages and     *)
(*            build_report_table are applied to them;                      *)
(*   SpecRun  run(): demo mode, or the loop over the recipient directory   *)
(*            with every outcome of the collaborators.                     *)
(*                                                                         *)
(* Percentages are kept in tenths of a percent (10.4% is 104).             *)
(***************************************************************************)
EXTENDS Integers, Sequences, FiniteSets, TLC

VARIABLES
    stage_df,          \* stage row-set: [columns, rows]
    otp_totals,        \* OTP row-set: <<>> or <<row>>
    discovery_totals,  \* discovery row-set: <<>> or <<row>>
    fi_status_df,      \* fetch-status row-set: rows [fetch_status, Count]
    edits,             \* number of edits made to the blank data source
    totals,            \* result of aggregate_stages
    table,             \* result of build_report_table
    phase,             \* "input" | "built"
    demo,              \* run(demo=...)
    date_spec,         \* run(date_spec=...): [form, ok], with the tokens
                       \* [start, end] where a range is resolved
    dates,             \* result of _date_range
    prefixes,          \* result of _month_prefixes
    drill,             \* the data source: the export of each day
    fetched,           \* the four fetches: "no" | "ok" | "empty" | "error"
    smtp_configured,   \* cfg["smtp"] has user and password
    to_map,            \* recipient directory, in iteration order
    idx,               \* position of the for loop in to_map
    pc,                \* position inside run()
    any_written,       \* run_reports.py:211
    log,               \* per entity: the steps attempted, in order
    demo_log,          \* the steps of the demo branch, in order
    queried,           \* entities for which run_sql was called
    artifacts,         \* files written: an entity id, or DemoFile
    smtp_sessions,     \* entities for which a mail transmission was made
    printed,           \* per entity: the notices printed, in order
    outcome            \* "running" | "returned" | "raised"

dataVars == <<stage_df, otp_totals, discovery_totals, fi_status_df, edits>>
buildVars == <<totals, table, phase>>
rangeVars == <<dates, prefixes, drill, fetched>>
runVars == <<demo, date_spec, rangeVars, smtp_configured, to_map, idx, pc, any_written,
             log, demo_log, queried, artifacts, smtp_sessions, printed,
             outcome>>
vars == <<dataVars, buildVars, runVars>>

(***************************************************************************)
(* Bounds                                                                  *)
(***************************************************************************)
\* edits applied to the blank data source (rows added, events recorded,
\* columns dropped, cells nulled)
MaxEdits == 4
\* entities in the recipient directory
MaxEntities == 2
\* users counted in one stage category of a bulk export
MaxUsers == 60
\* days from the start of a range to its end
MaxSpan == 35
\* consecutive days the data source may hold an export for
MaxDrillDays == 3

(***************************************************************************)
(* Values: a raised exception or a returned value                          *)
(***************************************************************************)
Ok(v) == [exc |-> "", val |-> v]
Raise(e) == [exc |-> e, val |-> <<>>]
Failed(r) == r.exc # ""

\* a NaN / missing numeric cell, and a present one
NaN == <<>>
Num(n) == <<n>>

RECURSIVE SumSeq(_)
SumSeq(s) == IF s = <<>> THEN 0 ELSE Head(s) + SumSeq(Tail(s))

(***************************************************************************)
(* report_engine.py: stage columns and aggregation                         *)
(***************************************************************************)
STAGE_COLUMNS ==
    << "AA_client_Initialization",
       "OTP_Based_Sign_in_Sign_up",
       "View_Consent_Details",
       "Discovery",
       "Linking",
       "Rejected_Consent_Requests",
       "Approved_Consent_Requests",
       "FIP_Rejected_Consent_Artefacts",
       "FIP_Accepted_Consent_Artefacts",
       "Data_Fetch_Success",
       "Data_Fetch_Not_Attempted" >>

StageColumnSet == { STAGE_COLUMNS[i] : i \in 1..Len(STAGE_COLUMNS) }

OTP_COLUMNS ==
    { "Total_Correct_OTP_Entered", "Total_Incorrect_OTP_Entered",
      "Total_OTP_Not_Entered" }

DISCOVERY_COLUMNS ==
    << "Account_Discovered", "Account_not_Found", "FIP_Not_Selected",
       "Failure", "NO_STATUS" >>

DiscoveryColumnSet == { DISCOVERY_COLUMNS[i] : i \in 1..Len(DISCOVERY_COLUMNS) }

FETCH_STATUSES == { "Not Attempted", "Failed", "Success" }

\* DataFrame.empty
IsEmptyFrame(df) == df.rows = <<>> \/ df.columns = {}

\* stage_df[STAGE_COLUMNS].astype(float).astype(int).sum()
aggregate_stages(df) ==
    IF ~(StageColumnSet \subseteq df.columns)
    THEN Raise("KeyError")
    ELSE Ok([c \in StageColumnSet |->
               SumSeq([i \in 1..Len(df.rows) |-> df.rows[i][c]])])

\* num / den rounded to the nearest integer, ties to even (den > 0)
RoundHalfEven(num, den) ==
    LET q == (2 * num + den) \div (2 * den)
        tie == (2 * num + den) % (2 * den) = 0
    IN  IF tie /\ q % 2 # 0 THEN q - 1 ELSE q

(***************************************************************************)
(* IEEE-754 double arithmetic, as far as _pct needs it. A double has a     *)
(* 53-bit significand and every operation rounds to nearest, ties to even. *)
(* Only the direction of the rounding error matters here, and it is found  *)
(* from remainders, which stay small.                                      *)
(***************************************************************************)
RECURSIVE Pow2(_)
Pow2(k) == IF k = 0 THEN 1 ELSE 2 * Pow2(k - 1)

\* (x * 2^k) mod m
RECURSIVE ShiftMod(_, _, _)
ShiftMod(x, k, m) ==
    IF k = 0 THEN x % m
    ELSE IF k >= 4 THEN ShiftMod((16 * (x % m)) % m, k - 4, m)
    ELSE ShiftMod((2 * (x % m)) % m, k - 1, m)

\* the g with 1 <= (v / t) * 2^g < 2, for v, t > 0
RECURSIVE BinaryExponent(_, _)
BinaryExponent(v, t) ==
    IF v < t THEN BinaryExponent(2 * v, t) + 1
    ELSE IF v >= 2 * t THEN BinaryExponent(v, 2 * t) - 1
    ELSE 0

\* v / t in double arithmetic is m1 * 2^-e, m1 the 53-bit integer nearest
\* to M = v * 2^e / t. Given r = v * 2^e mod t and fl = floor(M) mod 256,
\* the record holds t * (m1 - M) as `err` and m1 mod 256 as `low`
Nearest(t, e, r, fl, up) ==
    [e |-> e,
     err |-> IF up THEN t - r ELSE 0 - r,
     low |-> IF up THEN (fl + 1) % 256 ELSE fl]
DivideFrom(t, e, r, fl) ==
    Nearest(t, e, r, fl, 2 * r > t \/ (2 * r = t /\ fl % 2 = 1))
DivideAt(v, t, e) ==
    DivideFrom(t, e, ShiftMod(v, e, t), ShiftMod(v, e, 256 * t) \div t)
DoubleDivide(v, t) == DivideAt(v, t, BinaryExponent(v, t) + 52)

Sign(d) == IF d > 0 THEN 1 ELSE IF d < 0 THEN 0 - 1 ELSE 0

\* fl(v / t) * 100 = 100 * m1 * 2^-e has 59 or 60 bits and is rounded to 53:
\* the shift s is 6 when 100 * m1 < 2^59, else 7 (g = e - 52)
ProductShift(v, t, g) ==
    IF g >= 0
    THEN (IF 25 * v * Pow2(g) < 32 * t THEN 6 ELSE 7)
    ELSE (IF 25 * v < 32 * t * Pow2(0 - g) THEN 6 ELSE 7)
\* the amount added to 100 * m1 by rounding it to a multiple of unit = 2^s,
\* rho and low being 100 * m1 mod 2^s and mod 2^(s+1)
ProductAdjust(unit, rho, low) ==
    IF 2 * rho > unit \/ (2 * rho = unit /\ low >= unit)
    THEN unit - rho
    ELSE 0 - rho
ProductErrorFrom(q, t, unit, low) ==
    Sign(100 * q.err + t * ProductAdjust(unit, low % unit, low))
ProductErrorAt(q, t, s) ==
    ProductErrorFrom(q, t, Pow2(s), (100 * q.low) % Pow2(s + 1))
ProductError(q, v, t) == ProductErrorAt(q, t, ProductShift(v, t, q.e - 52))

\* Sign of fl(fl(v / t) * 100) - 100 * v / t, for v, t > 0
DoubleQuotientTimes100Error(v, t) == ProductError(DoubleDivide(v, t), v, t)

\* round(x, 1) in tenths, for the double x nearest to num / (10 * den) up to
\* an error of sign err (num >= 0, den > 0): round() rounds the exact value
\* of x, ties to even. Off a tie the error of x, below 2^-45, cannot change
\* the nearest tenth, which is at least 1 / (20 * den) away from a tie.
RoundDouble(num, den, err) ==
    IF 2 * (num % den) # den \/ err = 0 THEN RoundHalfEven(num, den)
    ELSE IF err > 0 THEN (num \div den) + 1
    ELSE num \div den

\* round((value / total) * 100, 1) for total > 0, in tenths of a percent
PctOfPositive(value, total) ==
    RoundDouble(1000 * value, total, DoubleQuotientTimes100Error(value, total))
PctOfQuotient(value, total) ==
    IF value = 0 THEN 0
    ELSE IF value > 0 THEN PctOfPositive(value, total)
    ELSE 0 - PctOfPositive(0 - value, total)

\* mutant of _pct: an empty cohort reported as 100%
_pct_full_when_empty(value, total) ==
    IF total > 0 THEN PctOfQuotient(value, total) ELSE 1000

_pct(value, total) ==
    IF total > 0 THEN PctOfQuotient(value, total) ELSE 0

(***************************************************************************)
(* report_engine.py: build_report_table, local by local                    *)
(***************************************************************************)
\* mutant of total_users: Linking left out of the cohort
total_users_without_linking(stage_totals) ==
      stage_totals["AA_client_Initialization"]
    + stage_totals["OTP_Based_Sign_in_Sign_up"]
    + stage_totals["View_Consent_Details"]
    + stage_totals["Discovery"]
    + stage_totals["Rejected_Consent_Requests"]
    + stage_totals["Approved_Consent_Requests"]

\* cohort size: the sum of seven stage categories
total_users(stage_totals) ==
      stage_totals["AA_client_Initialization"]
    + stage_totals["OTP_Based_Sign_in_Sign_up"]
    + stage_totals["View_Consent_Details"]
    + stage_totals["Discovery"]
    + stage_totals["Linking"]
    + stage_totals["Rejected_Consent_Requests"]
    + stage_totals["Approved_Consent_Requests"]

d1(stage_totals) == stage_totals["AA_client_Initialization"]
d2(stage_totals) == stage_totals["OTP_Based_Sign_in_Sign_up"]
view_drop(stage_totals) == stage_totals["View_Consent_Details"]
auth_drop(stage_totals) == d2(stage_totals) + view_drop(stage_totals)

\* the dict disc: empty when the discovery row-set is empty, else each of
\* the five columns of its first row, NaN read as 0
disc(discovery) ==
    IF discovery = <<>>
    THEN [c \in {} |-> 0]
    ELSE [c \in DiscoveryColumnSet |->
            IF discovery[1][c] # NaN THEN discovery[1][c][1] ELSE 0]

\* disc.get(col, 0)
disc_get(discovery, col) ==
    IF disc(discovery) = <<>> THEN 0 ELSE disc(discovery)[col]

\* sum(disc.values()), 0 when the discovery row-set is empty
d3(discovery) ==
    IF discovery = <<>>
    THEN 0
    ELSE SumSeq([i \in 1..Len(DISCOVERY_COLUMNS) |->
                   disc(discovery)[DISCOVERY_COLUMNS[i]]])

d4(stage_totals) == stage_totals["Linking"]
rej(stage_totals) == stage_totals["Rejected_Consent_Requests"]
appr(stage_totals) == stage_totals["Approved_Consent_Requests"]
fip_rej(stage_totals) == stage_totals["FIP_Rejected_Consent_Artefacts"]
fip_ok(stage_totals) == stage_totals["FIP_Accepted_Consent_Artefacts"]
\* mutant of fetch_ok: the wrong stage column is read
fetch_ok_from_not_attempted(stage_totals) ==
    stage_totals["Data_Fetch_Not_Attempted"]
fetch_ok(stage_totals) == stage_totals["Data_Fetch_Success"]
not_attempted(stage_totals) == stage_totals["Data_Fetch_Not_Attempted"]

n_consent(stage_totals) == total_users(stage_totals)
\* mutant of n_after_init: the dropoff added instead of subtracted
n_after_init_added(stage_totals) == n_consent(stage_totals) + d1(stage_totals)
n_after_init(stage_totals) == n_consent(stage_totals) - d1(stage_totals)
n_after_auth(stage_totals) == n_after_init(stage_totals) - auth_drop(stage_totals)
n_after_disc(stage_totals, discovery) ==
    n_after_auth(stage_totals) - d3(discovery)
n_after_link(stage_totals, discovery) ==
    n_after_disc(stage_totals, discovery) - d4(stage_totals)

\* fi_status_df.loc[fi_status_df["fetch_status"] == status, "Count"].sum()
CountOf(fi_status, status) ==
    SumSeq([i \in 1..Len(fi_status) |->
              IF fi_status[i].fetch_status = status
              THEN fi_status[i].Count ELSE 0])

\* Success + Failed requests; 0 when the fetch-status row-set is empty
fi_req_ok(fi_status) ==
    IF fi_status # <<>>
    THEN CountOf(fi_status, "Success") + CountOf(fi_status, "Failed")
    ELSE 0

fi_fetch_drop(stage_totals, fi_status) ==
    fi_req_ok(fi_status) - fetch_ok(stage_totals)

otp_wrong(otp) ==
    IF otp # <<>> THEN otp[1]["Total_Incorrect_OTP_Entered"] ELSE 0
otp_miss(otp) ==
    IF otp # <<>> THEN otp[1]["Total_OTP_Not_Entered"] ELSE 0
\* mutant of otp_ok_drop: the residual clamped at 0
otp_ok_drop_clamped(stage_totals, otp) ==
    LET r == d2(stage_totals) - (otp_wrong(otp) + otp_miss(otp))
             + view_drop(stage_totals)
    IN  IF r < 0 THEN 0 ELSE r
\* mutant of otp_ok_drop: View_Consent_Details left out
otp_ok_drop_without_view(stage_totals, otp) ==
    d2(stage_totals) - (otp_wrong(otp) + otp_miss(otp))
otp_ok_drop(stage_totals, otp) ==
    d2(stage_totals) - (otp_wrong(otp) + otp_miss(otp)) + view_drop(stage_totals)

no_rec(discovery) == disc_get(discovery, "Account_not_Found")
fip_fail(discovery) == disc_get(discovery, "NO_STATUS")
some_fail(discovery) == disc_get(discovery, "Failure")
\* mutant of found_not_linked: FIP_Not_Selected left out
found_not_linked_discovered_only(discovery) ==
    disc_get(discovery, "Account_Discovered")
found_not_linked(discovery) ==
    disc_get(discovery, "Account_Discovered")
    + disc_get(discovery, "FIP_Not_Selected")

(***************************************************************************)
(* The table: 24 rows of 7 cells. A cell is a text, a count or a           *)
(* percentage (in tenths).                                                 *)
(***************************************************************************)
S(s) == [k |-> "text", s |-> s, n |-> 0]
N(n) == [k |-> "count", s |-> "", n |-> n]
P(n) == [k |-> "pct", s |-> "", n |-> n]
Blank == S("")

\* a stage row and a sub-dropoff row
StageRow(stage, action, ok, okPct, cause, drop, dropPct) ==
    << S(stage), S(action), N(ok), P(okPct), S(cause), N(drop), P(dropPct) >>
SubRow(cause, drop, dropPct) ==
    << Blank, Blank, Blank, Blank, S(cause), N(drop), P(dropPct) >>

\* pct = lambda x: _pct(x, total_users), and the table literal
build_report_table(stage_totals, otp, discovery, fi_status) ==
    IF ~(StageColumnSet \subseteq DOMAIN stage_totals)
    THEN Raise("KeyError")
    ELSE
    LET st == stage_totals
        pct(x) == _pct(x, total_users(st))
    IN Ok(<<
        << S("Summary"), S("% of initial users"), Blank, S("Note"),
           Blank, Blank, Blank >>,
        << S("Percentage of initial users who approved the consent"),
           P(pct(appr(st))), Blank,
           S("Please note that this funnel describes the journey of a user and not a consent request."),
           Blank, Blank, Blank >>,
        << S("Percentage of initial users who shared their data"),
           P(pct(fetch_ok(st))), Blank, Blank, Blank, Blank, Blank >>,
        << Blank, Blank, Blank, Blank, Blank, Blank, Blank >>,
        << Blank, Blank, S("Successful Users"), Blank, Blank,
           S("Dropped off Users"), Blank >>,
        << S("Stage"), S("Positive Action"), S("Count"),
           S("% of initial users"), S("Dropoff Cause"), S("Count"),
           S("% of initial users") >>,
        StageRow("Consent Initiated",
                 "AA successfully received a consent handle",
                 n_consent(st), pct(n_consent(st)),
                 "AA did not receive a consent handle", 0, pct(0)),
        StageRow("FIU initiated AA Client",
                 "AA client was successfully initiated",
                 n_after_init(st), pct(n_after_init(st)),
                 "AA client was not successfully initiated",
                 d1(st), pct(d1(st))),
        StageRow("Registration/Login", "User was authenticated",
                 n_after_auth(st), pct(n_after_auth(st)),
                 "User was not authenticated",
                 auth_drop(st), pct(auth_drop(st))),
        SubRow("Incorrect OTP entered", otp_wrong(otp), pct(otp_wrong(otp))),
        SubRow("OTP not received back", otp_miss(otp), pct(otp_miss(otp))),
        SubRow("Correct OTP entered but user dropped off",
               otp_ok_drop(st, otp), pct(otp_ok_drop(st, otp))),
        StageRow("Account Discovery", "User was able to find accounts",
                 n_after_disc(st, discovery), pct(n_after_disc(st, discovery)),
                 "User was not able to find accounts",
                 d3(discovery), pct(d3(discovery))),
        SubRow("FIP returned 'No Records Found'",
               no_rec(discovery), pct(no_rec(discovery))),
        SubRow("FIP failed to send records",
               fip_fail(discovery), pct(fip_fail(discovery))),
        SubRow("Some FIP returned 'No Records Found' and some failed to send records",
               some_fail(discovery), pct(some_fail(discovery))),
        SubRow("FIP returned accounts, but user did not link any accounts",
               found_not_linked(discovery), pct(found_not_linked(discovery))),
        StageRow("Account Linking", "User was able to link accounts",
                 n_after_link(st, discovery), pct(n_after_link(st, discovery)),
                 "User was not able to link accounts", d4(st), pct(d4(st))),
        StageRow("Consent Request Review", "User approved the consent request",
                 appr(st), pct(appr(st)),
                 "User did not approve the consent request",
                 rej(st), pct(rej(st))),
        SubRow("User rejected the consent", rej(st), pct(rej(st))),
        << Blank, Blank, Blank, Blank, S("User did not take any action"),
           Blank, Blank >>,
        StageRow("Consent Artefact Delivery",
                 "FIP accepted the consent artefact",
                 fip_ok(st), pct(fip_ok(st)),
                 "FIP rejected the consent artefact",
                 fip_rej(st), pct(fip_rej(st))),
        StageRow("FI Request", "FIU successfully requested the data",
                 fi_req_ok(fi_status), pct(fi_req_ok(fi_status)),
                 "FIU did not request the data",
                 not_attempted(st), pct(not_attempted(st))),
        StageRow("FI Fetch", "FIU successfully received the data",
                 fetch_ok(st), pct(fetch_ok(st)),
                 "FIU did not received the data",
                 fi_fetch_drop(st, fi_status), pct(fi_fetch_drop(st, fi_status)))
    >>)

\* run_reports.py:227-228 (and 198-199): aggregate, then build
Transform(df, otp, discovery, fi_status) ==
    LET agg == aggregate_stages(df)
    IN  IF Failed(agg)
        THEN [totals |-> agg, table |-> Raise(agg.exc)]
        ELSE [totals |-> agg,
              table |-> build_report_table(agg.val, otp, discovery, fi_status)]

(***************************************************************************)
(* The data source, grown edit by edit from a blank one                    *)
(***************************************************************************)
ZeroStageRow(columns) == [c \in columns |-> 0]
ZeroOtpRow == [c \in OTP_COLUMNS |-> 0]
ZeroDiscoveryRow == [c \in DiscoveryColumnSet |-> Num(0)]

BlankStage == [columns |-> StageColumnSet, rows |-> <<>>]
NoTable == Raise("not built")
NotCalled == Raise("not called")

\* neither resolver called, nothing fetched from a data source
InitRangeIdle ==
    /\ dates = NotCalled
    /\ prefixes = NotCalled
    /\ drill = <<>>
    /\ fetched = "no"

InitData ==
    /\ stage_df = BlankStage
    /\ otp_totals = <<>>
    /\ discovery_totals = <<>>
    /\ fi_status_df = <<>>
    /\ edits = 0

InitBuild ==
    /\ totals = NoTable
    /\ table = NoTable
    /\ phase = "input"

\* run() not started: its functions are exercised on their own
InitNotRunning ==
    /\ demo = FALSE
    /\ smtp_configured = FALSE
    /\ to_map = <<>>
    /\ idx = 0
    /\ pc = "idle"
    /\ any_written = FALSE
    /\ log = <<>>
    /\ demo_log = <<>>
    /\ queried = {}
    /\ artifacts = {}
    /\ smtp_sessions = {}
    /\ printed = <<>>
    /\ outcome = "running"

InitIdle ==
    /\ date_spec = [form |-> "single", ok |-> TRUE]
    /\ InitRangeIdle
    /\ InitNotRunning

Editing == phase = "input" /\ pc = "idle" /\ edits < MaxEdits

\* one more day in the stage export
AddStageRow ==
    /\ Editing
    /\ stage_df' = [stage_df EXCEPT
                      !.rows = Append(@, ZeroStageRow(stage_df.columns))]
    /\ edits' = edits + 1
    /\ UNCHANGED <<otp_totals, discovery_totals, fi_status_df, buildVars, runVars>>

\* the stage export lacks a column
DropStageColumn ==
    /\ Editing
    /\ \E c \in stage_df.columns :
         stage_df' =
           [columns |-> stage_df.columns \ {c},
            rows |-> [i \in 1..Len(stage_df.rows) |->
                        [k \in stage_df.columns \ {c} |-> stage_df.rows[i][k]]]]
    /\ edits' = edits + 1
    /\ UNCHANGED <<otp_totals, discovery_totals, fi_status_df, buildVars, runVars>>

\* one more user counted in a stage category of some day
RecordStage ==
    /\ Editing
    /\ \E i \in 1..Len(stage_df.rows), c \in stage_df.columns :
         stage_df' = [stage_df EXCEPT !.rows[i][c] = @ + 1]
    /\ edits' = edits + 1
    /\ UNCHANGED <<otp_totals, discovery_totals, fi_status_df, buildVars, runVars>>

\* the OTP query returns its one row
AddOtpRow ==
    /\ Editing
    /\ otp_totals = <<>>
    /\ otp_totals' = << ZeroOtpRow >>
    /\ edits' = edits + 1
    /\ UNCHANGED <<stage_df, discovery_totals, fi_status_df, buildVars, runVars>>

RecordOtp ==
    /\ Editing
    /\ otp_totals # <<>>
    /\ \E c \in OTP_COLUMNS :
         otp_totals' = [otp_totals EXCEPT ![1][c] = @ + 1]
    /\ edits' = edits + 1
    /\ UNCHANGED <<stage_df, discovery_totals, fi_status_df, buildVars, runVars>>

\* the discovery query returns its one row
AddDiscoveryRow ==
    /\ Editing
    /\ discovery_totals = <<>>
    /\ discovery_totals' = << ZeroDiscoveryRow >>
    /\ edits' = edits + 1
    /\ UNCHANGED <<stage_df, otp_totals, fi_status_df, buildVars, runVars>>

RecordDiscovery ==
    /\ Editing
    /\ discovery_totals # <<>>
    /\ \E c \in DiscoveryColumnSet :
         /\ discovery_totals[1][c] # NaN
         /\ discovery_totals' =
              [discovery_totals EXCEPT ![1][c] = Num(@[1] + 1)]
    /\ edits' = edits + 1
    /\ UNCHANGED <<stage_df, otp_totals, fi_status_df, buildVars, runVars>>

\* SUM over cells that are all '' is null
NullDiscovery ==
    /\ Editing
    /\ discovery_totals # <<>>
    /\ \E c \in DiscoveryColumnSet :
         /\ discovery_totals[1][c] = Num(0)
         /\ discovery_totals' = [discovery_totals EXCEPT ![1][c] = NaN]
    /\ edits' = edits + 1
    /\ UNCHANGED <<stage_df, otp_totals, fi_status_df, buildVars, runVars>>

\* a fetch status occurs for the first time: GROUP BY yields its row
AddFiStatusRow ==
    /\ Editing
    /\ \E s \in FETCH_STATUSES :
         /\ \A i \in 1..Len(fi_status_df) : fi_status_df[i].fetch_status # s
         /\ fi_status_df' = Append(fi_status_df, [fetch_status |-> s, Count |-> 1])
    /\ edits' = edits + 1
    /\ UNCHANGED <<stage_df, otp_totals, discovery_totals, buildVars, runVars>>

RecordFiStatus ==
    /\ Editing
    /\ \E i \in 1..Len(fi_status_df) :
         fi_status_df' = [fi_status_df EXCEPT ![i].Count = @ + 1]
    /\ edits' = edits + 1
    /\ UNCHANGED <<stage_df, otp_totals, discovery_totals, buildVars, runVars>>

\* aggregate_stages then build_report_table on a non-empty stage row-set
Build ==
    /\ phase = "input" /\ pc = "idle"
    /\ ~IsEmptyFrame(stage_df)
    /\ LET r == Transform(stage_df, otp_totals, discovery_totals, fi_status_df)
       IN  /\ totals' = r.totals
           /\ table' = r.table
    /\ phase' = "built"
    /\ UNCHANGED <<dataVars, runVars>>

Init == InitData /\ InitBuild /\ InitIdle

Next ==
    \/ AddStageRow
    \/ DropStageColumn
    \/ RecordStage
    \/ AddOtpRow
    \/ RecordOtp
    \/ AddDiscoveryRow
    \/ RecordDiscovery
    \/ NullDiscovery
    \/ AddFiStatusRow
    \/ RecordFiStatus
    \/ Build

Spec == Init /\ [][Next]_vars

(***************************************************************************)
(* The builder on a one-day export with many users: some of them stopped   *)
(* at the AA client, the others approved the consent, and the data of all  *)
(* approvers or of none of them was fetched                                *)
(***************************************************************************)
InitBulk ==
    /\ \E a \in 0..MaxUsers, b \in 0..MaxUsers, f \in BOOLEAN :
         stage_df =
           [columns |-> StageColumnSet,
            rows |-> << [ZeroStageRow(StageColumnSet) EXCEPT
                           !["AA_client_Initialization"] = a,
                           !["Approved_Consent_Requests"] = b,
                           !["Data_Fetch_Success"] = IF f THEN b ELSE 0] >>]
    /\ otp_totals = <<>>
    /\ discovery_totals = <<>>
    /\ fi_status_df = <<>>
    /\ edits = 0
    /\ InitBuild
    /\ InitIdle

NextBulk == Build

SpecBulk == InitBulk /\ [][NextBulk]_vars

(***************************************************************************)
(* report_engine.py: dates. A token is the text dd_mm_yyyy, kept as its    *)
(* three numbers [dd, mm, yyyy]; a datetime is [year, month, day]; a month *)
(* prefix is the text *mm_yyyy, kept as [mm, yyyy].                        *)
(***************************************************************************)
\* datetime.MINYEAR and datetime.MAXYEAR
MINYEAR == 1
MAXYEAR == 9999

IsLeap(y) == y % 4 = 0 /\ (y % 100 # 0 \/ y % 400 = 0)

DaysInMonth(y, m) ==
    IF m = 2 THEN (IF IsLeap(y) THEN 29 ELSE 28)
    ELSE IF m \in {4, 6, 9, 11} THEN 30
    ELSE 31

\* datetime.strptime(token, "%d_%m_%Y")
strptime(token) ==
    IF /\ token.yyyy \in MINYEAR..MAXYEAR
       /\ token.mm \in 1..12
       /\ token.dd \in 1..DaysInMonth(token.yyyy, token.mm)
    THEN Ok([year |-> token.yyyy, month |-> token.mm, day |-> token.dd])
    ELSE Raise("ValueError")

\* cur.strftime("%d_%m_%Y")
strftime(cur) == [dd |-> cur.day, mm |-> cur.month, yyyy |-> cur.year]

\* f"*{cur.strftime('%m_%Y')}"
MonthPrefix(cur) == [mm |-> cur.month, yyyy |-> cur.year]

\* a <= b on datetimes
Le(a, b) ==
    \/ a.year < b.year
    \/ a.year = b.year /\ a.month < b.month
    \/ a.year = b.year /\ a.month = b.month /\ a.day <= b.day

\* cur + timedelta(days=n): OverflowError past 31 December MAXYEAR
RECURSIVE AddDays(_, _)
AddDays(cur, n) ==
    IF n = 0 THEN Ok(cur)
    ELSE IF cur.day < DaysInMonth(cur.year, cur.month)
    THEN AddDays([cur EXCEPT !.day = @ + 1], n - 1)
    ELSE IF cur.month < 12
    THEN AddDays([cur EXCEPT !.month = @ + 1, !.day = 1], n - 1)
    ELSE IF cur.year < MAXYEAR
    THEN AddDays([year |-> cur.year + 1, month |-> 1, day |-> 1], n - 1)
    ELSE Raise("OverflowError")

\* while cur <= end: out.append(...); cur += timedelta(days=1)
RECURSIVE DateLoop(_, _, _)
DateLoop(cur, end, out) ==
    IF ~Le(cur, end) THEN Ok(out)
    ELSE LET next == AddDays(cur, 1)
         IN  IF Failed(next) THEN next
             ELSE DateLoop(next.val, end, Append(out, strftime(cur)))

_date_range(start_str, end_str) ==
    LET start == strptime(start_str)
        end == strptime(end_str)
    IN  IF Failed(start) THEN start
        ELSE IF Failed(end) THEN end
        ELSE DateLoop(start.val, end.val, <<>>)

\* while cur <= end: out.append(...);
\* cur = (cur + timedelta(days=32)).replace(day=1)
RECURSIVE MonthLoop(_, _, _)
MonthLoop(cur, end, out) ==
    IF ~Le(cur, end) THEN Ok(out)
    ELSE LET later == AddDays(cur, 32)
         IN  IF Failed(later) THEN later
             ELSE MonthLoop([later.val EXCEPT !.day = 1], end,
                            Append(out, MonthPrefix(cur)))

_month_prefixes(start_str, end_str) ==
    LET start == strptime(start_str)
        end == strptime(end_str)
    IN  IF Failed(start) THEN start
        ELSE IF Failed(end) THEN end
        ELSE MonthLoop([start.val EXCEPT !.day = 1], end.val, <<>>)

(***************************************************************************)
(* The two resolvers on ranges of up to MaxSpan days that start in a leap  *)
(* year or in the last year of the calendar                                *)
(***************************************************************************)
DrawnYears == {2024, MAXYEAR}

DrawnTokens == [dd : 1..31, mm : 1..12, yyyy : DrawnYears]

\* the tokens of the date cur and of the up to n days after it
RECURSIVE Following(_, _)
Following(cur, n) ==
    LET next == AddDays(cur, 1)
    IN  IF n = 0 \/ Failed(next) THEN { strftime(cur) }
        ELSE { strftime(cur) } \cup Following(next.val, n - 1)

\* the range specs "start -> end" that start at token t: end is 0..MaxSpan
\* days after start, and a start that is no date comes with itself as end
RangeSpecs(t) ==
    IF Failed(strptime(t))
    THEN { [form |-> "range", ok |-> FALSE, start |-> t, end |-> t] }
    ELSE { [form |-> "range", ok |-> TRUE, start |-> t, end |-> e] :
             e \in Following(strptime(t).val, MaxSpan) }

InitDates ==
    /\ InitData
    /\ InitBuild
    /\ InitNotRunning
    /\ \E t \in DrawnTokens : date_spec \in RangeSpecs(t)
    /\ dates = NotCalled
    /\ prefixes = NotCalled
    /\ drill = <<>>
    /\ fetched = "no"

ResolveDays ==
    /\ pc = "idle" /\ date_spec.form = "range"
    /\ dates = NotCalled
    /\ dates' = _date_range(date_spec.start, date_spec.end)
    /\ UNCHANGED <<dataVars, buildVars, demo, date_spec, prefixes, drill,
                   fetched, smtp_configured, to_map, idx, pc, any_written,
                   log, demo_log, queried, artifacts, smtp_sessions, printed,
                   outcome>>

ResolveMonths ==
    /\ pc = "idle" /\ date_spec.form = "range"
    /\ prefixes = NotCalled
    /\ prefixes' = _month_prefixes(date_spec.start, date_spec.end)
    /\ UNCHANGED <<dataVars, buildVars, demo, date_spec, dates, drill,
                   fetched, smtp_configured, to_map, idx, pc, any_written,
                   log, demo_log, queried, artifacts, smtp_sessions, printed,
                   outcome>>

NextDates == ResolveDays \/ ResolveMonths

SpecDates == InitDates /\ [][NextDates]_vars

(***************************************************************************)
(* report_engine.py: demo data                                             *)
(***************************************************************************)
MockStageRow ==
    [c \in StageColumnSet |->
       CASE c = "AA_client_Initialization" -> 800
         [] c = "OTP_Based_Sign_in_Sign_up" -> 450
         [] c = "View_Consent_Details" -> 1050
         [] c = "Discovery" -> 600
         [] c = "Linking" -> 1600
         [] c = "Rejected_Consent_Requests" -> 1950
         [] c = "Approved_Consent_Requests" -> 1250
         [] c = "FIP_Rejected_Consent_Artefacts" -> 150
         [] c = "FIP_Accepted_Consent_Artefacts" -> 1100
         [] c = "Data_Fetch_Success" -> 820
         [] c = "Data_Fetch_Not_Attempted" -> 50]

MockOtpRow ==
    [c \in OTP_COLUMNS |->
       CASE c = "Total_Correct_OTP_Entered" -> 0
         [] c = "Total_Incorrect_OTP_Entered" -> 450
         [] c = "Total_OTP_Not_Entered" -> 1200]

MockDiscoveryRow ==
    [c \in DiscoveryColumnSet |->
       CASE c = "Account_Discovered" -> Num(350)
         [] c = "Account_not_Found" -> Num(600)
         [] c = "FIP_Not_Selected" -> Num(400)
         [] c = "Failure" -> Num(150)
         [] c = "NO_STATUS" -> Num(200)]

get_mock_funnel_data ==
    [stage_df |-> [columns |-> StageColumnSet, rows |-> << MockStageRow >>],
     otp_df |-> << MockOtpRow >>,
     discovery_df |-> << MockDiscoveryRow >>,
     fi_status_df |-> << [fetch_status |-> "Success", Count |-> 820],
                         [fetch_status |-> "Failed", Count |-> 230],
                         [fetch_status |-> "Not Attempted", Count |-> 50] >>]

(***************************************************************************)
(* The data-source collaborator as run() sees it                           *)
(***************************************************************************)
\* pd.DataFrame(): what run_sql returns on a transport or query error
EmptyFrame == [columns |-> {}, rows |-> <<>>]

\* the columns of the stage export besides the stage columns
StageKeyColumns == { "Date", "Entity_ID" }

\* what the stage query can answer for a well-formed date spec: no answer,
\* a day of data, or a day of data from an export lacking one stage column
DrillStageFrames ==
    { EmptyFrame,
      [columns |-> StageColumnSet \cup StageKeyColumns,
       rows |-> << MockStageRow >>] }
    \cup
    { [columns |-> (StageColumnSet \ {c}) \cup StageKeyColumns,
       rows |-> << [k \in StageColumnSet \ {c} |-> MockStageRow[k]] >>]
      : c \in { "Linking" } }

\* what the OTP, discovery and fetch-status queries can answer: the three
\* files of a day sit in one directory, so either each query finds its file
\* or none does and run_sql returns three empty frames
DrillSummaryFrames ==
    { [otp |-> <<>>, discovery |-> <<>>, fi_status |-> <<>>],
      [otp |-> get_mock_funnel_data.otp_df,
       discovery |-> get_mock_funnel_data.discovery_df,
       fi_status |-> get_mock_funnel_data.fi_status_df] }

DATE_FORMS == { "single", "month", "range" }

\* datetime.strptime on the two tokens of a range
ParseRange(spec) == IF spec.ok THEN Ok(spec) ELSE Raise("ValueError")

\* whether fetch_stage_metrics reaches run_sql: a range is parsed first
StageQueryIssued(spec) ==
    ~(spec.form = "range" /\ Failed(ParseRange(spec)))

\* fetch_stage_metrics on the answer `frame` of the data source; in_range
\* tells whether the rows of a range answer fall between start and end
fetch_stage_metrics(spec, frame, in_range) ==
    IF spec.form = "range"
    THEN IF Failed(ParseRange(spec))
         THEN Raise("ValueError")
         ELSE IF "Date" \notin frame.columns
              THEN Raise("KeyError")
              ELSE Ok([frame EXCEPT !.rows = IF in_range THEN @ ELSE <<>>])
    ELSE Ok(frame)

\* the answers the data source can give to a date spec: a malformed token
\* names no file, so the query fails
StageAnswers(spec) ==
    IF spec.ok THEN DrillStageFrames ELSE { EmptyFrame }

(***************************************************************************)
(* report_engine.py: the four fetches on a data source with one export     *)
(* directory per day. drill is the set of days (tokens) that have one; a   *)
(* day's export holds the demo figures for the entity asked for.           *)
(***************************************************************************)
\* the days an export may exist for: the last of January 2024 onwards
FirstDrillDay == [year |-> 2024, month |-> 1, day |-> 30]
DrillDays ==
    DateLoop(FirstDrillDay, AddDays(FirstDrillDay, MaxDrillDays - 1).val, <<>>).val

\* the date spec as text: "dd_mm_yyyy", "*mm_yyyy" or "start -> end"
SingleSpec(d) == [form |-> "single", ok |-> ~Failed(strptime(d)),
                  start |-> d, end |-> d]
MonthSpec(p) == [form |-> "month", ok |-> TRUE, start |-> p, end |-> p]
RangeSpec(s, e) ==
    [form |-> "range", ok |-> ~Failed(strptime(s)) /\ ~Failed(strptime(e)),
     start |-> s, end |-> e]

\* the export directories a path names: dd_mm_yyyy names one, and the glob
\* *mm_yyyy every day of that month; in order of date
IsPrefix(p) == DOMAIN p = { "mm", "yyyy" }
Matching(src, p) ==
    SelectSeq(DrillDays,
              LAMBDA d : /\ d \in src
                         /\ IF IsPrefix(p)
                            THEN d.mm = p.mm /\ d.yyyy = p.yyyy
                            ELSE d = p)

\* the row of uf-stages-user-funnel of day d; Date is the text dd-mm-yyyy
DrillStageRow(d) ==
    [c \in StageColumnSet \cup StageKeyColumns |->
       IF c = "Date" THEN d
       ELSE IF c = "Entity_ID" THEN Blank
       ELSE MockStageRow[c]]

\* run_sql on the stage query of path p: no file, no answer
StageQuery(src, p) ==
    LET days == Matching(src, p)
    IN  IF days = <<>> THEN EmptyFrame
        ELSE [columns |-> StageColumnSet \cup StageKeyColumns,
              rows |-> [i \in 1..Len(days) |-> DrillStageRow(days[i])]]

\* run_sql on the SUM query over the OTP summary of path p
OtpQuery(src, p) ==
    LET n == Len(Matching(src, p))
    IN  IF n = 0 THEN <<>>
        ELSE << [c \in OTP_COLUMNS |-> n * MockOtpRow[c]] >>

\* run_sql on the SUM query over the discovery summary of path p
DiscoveryQuery(src, p) ==
    LET n == Len(Matching(src, p))
    IN  IF n = 0 THEN <<>>
        ELSE << [c \in DiscoveryColumnSet |-> Num(n * MockDiscoveryRow[c][1])] >>

\* run_sql on the GROUP BY query over the fetch statuses of path p
FiStatusQuery(src, p) ==
    LET n == Len(Matching(src, p))
        mock == get_mock_funnel_data.fi_status_df
    IN  IF n = 0 THEN <<>>
        ELSE [i \in 1..Len(mock) |->
                [fetch_status |-> mock[i].fetch_status,
                 Count |-> n * mock[i].Count]]

\* pd.concat(frames) of stage frames, and of row-sets
RECURSIVE ConcatFrames(_)
ConcatFrames(frames) ==
    IF frames = <<>> THEN EmptyFrame
    ELSE LET rest == ConcatFrames(Tail(frames))
         IN  [columns |-> Head(frames).columns \cup rest.columns,
              rows |-> Head(frames).rows \o rest.rows]
RECURSIVE ConcatRows(_)
ConcatRows(frames) ==
    IF frames = <<>> THEN <<>> ELSE Head(frames) \o ConcatRows(Tail(frames))

\* pd.to_datetime(text, format="%d-%m-%Y")
to_datetime(text) == strptime(text).val

\* fetch_stage_metrics on the data source src
FetchStageMetrics(src, spec) ==
    IF spec.form = "range"
    THEN LET found == _month_prefixes(spec.start, spec.end)
         IN  IF Failed(found) THEN found
             ELSE IF found.val = <<>> THEN Ok(EmptyFrame)
             ELSE
             LET combined == ConcatFrames([i \in 1..Len(found.val) |->
                                             StageQuery(src, found.val[i])])
                 start == strptime(spec.start).val
                 end == strptime(spec.end).val
                 dated == [i \in 1..Len(combined.rows) |->
                             [combined.rows[i] EXCEPT
                                !["Date"] = to_datetime(@)]]
             IN  IF "Date" \notin combined.columns
                 THEN Raise("KeyError")
                 ELSE Ok([columns |-> combined.columns,
                          rows |-> SelectSeq(dated,
                                     LAMBDA r : /\ Le(start, r["Date"])
                                                /\ Le(r["Date"], end))])
    ELSE Ok(StageQuery(src, spec.start))

\* pd.concat(frames).sum(numeric_only=True).to_frame().T of one-row frames
\* with the integer columns cols: one row of sums; over frames that are all
\* empty it has no column and is empty
SumRows(rows, cols) ==
    IF rows = <<>> THEN <<>>
    ELSE << [c \in cols |-> SumSeq([i \in 1..Len(rows) |-> rows[i][c]])] >>

\* fetch_otp_totals
FetchOtpTotals(src, spec) ==
    IF spec.form = "range"
    THEN LET found == _date_range(spec.start, spec.end)
         IN  IF Failed(found) THEN found
             ELSE Ok(SumRows(ConcatRows([i \in 1..Len(found.val) |->
                                           OtpQuery(src, found.val[i])]),
                             OTP_COLUMNS))
    ELSE Ok(OtpQuery(src, spec.start))

\* fetch_discovery_totals
FetchDiscoveryTotals(src, spec) ==
    IF spec.form = "range"
    THEN LET found == _date_range(spec.start, spec.end)
             rows == ConcatRows([i \in 1..Len(found.val) |->
                                   DiscoveryQuery(src, found.val[i])])
         IN  IF Failed(found) THEN found
             ELSE IF rows = <<>> THEN Ok(<<>>)
             ELSE Ok(<< [c \in DiscoveryColumnSet |->
                           Num(SumSeq([i \in 1..Len(rows) |->
                                         rows[i][c][1]]))] >>)
    ELSE Ok(DiscoveryQuery(src, spec.start))

\* groupby("fetch_status")["Count"].sum().reset_index(): one row per status
\* that occurs, in the order of the sorted keys
SortedStatuses == << "Failed", "Not Attempted", "Success" >>
GroupByStatus(rows) ==
    LET present == SelectSeq(SortedStatuses,
                     LAMBDA st : \E i \in 1..Len(rows) :
                                    rows[i].fetch_status = st)
    IN  [k \in 1..Len(present) |->
           [fetch_status |-> present[k], Count |-> CountOf(rows, present[k])]]

\* fetch_fi_status_counts
FetchFiStatusCounts(src, spec) ==
    IF spec.form = "range"
    THEN LET found == _date_range(spec.start, spec.end)
             combined == ConcatRows([i \in 1..Len(found.val) |->
                                       FiStatusQuery(src, found.val[i])])
         IN  IF Failed(found) THEN found
             ELSE IF combined = <<>> THEN Ok(<<>>)
             ELSE Ok(GroupByStatus(combined))
    ELSE Ok(FiStatusQuery(src, spec.start))

\* the date specs asked of the data source: a day, a month, a range
FetchSpecs ==
    { SingleSpec(DrillDays[i]) : i \in 1..Len(DrillDays) }
    \cup { MonthSpec(MonthPrefix(to_datetime(DrillDays[i]))) :
             i \in 1..Len(DrillDays) }
    \cup { RangeSpec(DrillDays[i], DrillDays[j]) :
             i \in 1..Len(DrillDays), j \in 1..Len(DrillDays) }

InitFetch ==
    /\ InitData
    /\ InitBuild
    /\ InitNotRunning
    /\ date_spec \in FetchSpecs
    /\ drill \in SUBSET { DrillDays[i] : i \in 1..Len(DrillDays) }
    /\ dates = NotCalled
    /\ prefixes = NotCalled
    /\ fetched = "no"

\* run_reports.py:218-224 for one entity: the stage fetch, and unless it
\* raised or came back empty, the three others
Fetch ==
    /\ pc = "idle" /\ phase = "input" /\ fetched = "no"
    /\ LET stages == FetchStageMetrics(drill, date_spec)
           otp == FetchOtpTotals(drill, date_spec)
           discovery == FetchDiscoveryTotals(drill, date_spec)
           fi_status == FetchFiStatusCounts(drill, date_spec)
       IN  IF Failed(stages)
           THEN /\ fetched' = "error"
                /\ UNCHANGED <<stage_df, otp_totals, discovery_totals,
                               fi_status_df>>
           ELSE IF IsEmptyFrame(stages.val)
           THEN /\ fetched' = "empty"
                /\ stage_df' = stages.val
                /\ UNCHANGED <<otp_totals, discovery_totals, fi_status_df>>
           ELSE IF Failed(otp) \/ Failed(discovery) \/ Failed(fi_status)
           THEN /\ fetched' = "error"
                /\ stage_df' = stages.val
                /\ UNCHANGED <<otp_totals, discovery_totals, fi_status_df>>
           ELSE /\ fetched' = "ok"
                /\ stage_df' = stages.val
                /\ otp_totals' = otp.val
                /\ discovery_totals' = discovery.val
                /\ fi_status_df' = fi_status.val
    /\ UNCHANGED <<edits, buildVars, demo, date_spec, dates, prefixes, drill,
                   smtp_configured, to_map, idx, pc, any_written, log,
                   demo_log, queried, artifacts, smtp_sessions, printed,
                   outcome>>

NextFetch == Fetch \/ Build

SpecFetch == InitFetch /\ [][NextFetch]_vars

(***************************************************************************)
(* run_reports.py: run()                                                   *)
(***************************************************************************)
Entities == 1..MaxEntities
DemoFile == 0

\* dict iteration order of to_map: distinct keys in any order
Directories ==
    UNION { { q \in [1..n -> Entities] :
                \A i, j \in 1..n : i # j => q[i] # q[j] } : n \in 0..MaxEntities }

InitRun ==
    /\ InitData
    /\ InitBuild
    /\ demo \in BOOLEAN
    /\ date_spec \in [form : DATE_FORMS, ok : BOOLEAN]
    /\ InitRangeIdle
    /\ smtp_configured \in BOOLEAN
    /\ to_map \in Directories
    /\ idx = 0
    /\ pc = "start"
    /\ any_written = FALSE
    /\ log = [e \in Entities |-> <<>>]
    /\ demo_log = <<>>
    /\ queried = {}
    /\ artifacts = {}
    /\ smtp_sessions = {}
    /\ printed = [e \in Entities |-> <<>>]
    /\ outcome = "running"

entity_id == to_map[idx]

Note(e, text) == [printed EXCEPT ![e] = Append(@, text)]
Step(e, name) == [log EXCEPT ![e] = Append(@, name)]

\* mutant of ExceptTarget: the exception leaves run()
ExceptTargetPropagate == [pc |-> "done", outcome |-> "raised"]

\* except Exception as e: print("  Error:", e), and the loop goes on
ExceptTarget == [pc |-> "loop", outcome |-> "running"]

\* if stages.empty: print("  No data; skipping."); continue
SkipTarget == [pc |-> "loop", outcome |-> "running"]

\* an exception raised inside the try of the loop body
Except(e) ==
    /\ printed' = Note(e, "Error")
    /\ pc' = ExceptTarget.pc
    /\ outcome' = ExceptTarget.outcome

\* load_config, load_recipients, makedirs and the banner; any of the first
\* three can raise, and nothing catches it
Setup ==
    /\ pc = "start"
    /\ \/ /\ pc' = IF demo THEN "demo" ELSE "loop"
          /\ outcome' = outcome
       \/ /\ pc' = "done"
          /\ outcome' = "raised"
    /\ UNCHANGED <<dataVars, buildVars, demo, date_spec, rangeVars, smtp_configured,
                   to_map, idx, any_written, log, demo_log, queried,
                   artifacts, smtp_sessions, printed>>

\* the demo branch: mock data, aggregate, build
DemoTransform ==
    /\ pc = "demo"
    /\ LET m == get_mock_funnel_data
           r == Transform(m.stage_df, m.otp_df, m.discovery_df, m.fi_status_df)
       IN  /\ stage_df' = m.stage_df
           /\ otp_totals' = m.otp_df
           /\ discovery_totals' = m.discovery_df
           /\ fi_status_df' = m.fi_status_df
           /\ totals' = r.totals
           /\ table' = r.table
           /\ demo_log' = demo_log \o << "mock", "aggregate", "build" >>
           /\ IF Failed(r.table)
              THEN pc' = "done" /\ outcome' = "raised"
              ELSE pc' = "demo_write" /\ outcome' = outcome
    /\ UNCHANGED <<edits, phase, demo, date_spec, rangeVars, smtp_configured, to_map, idx,
                   any_written, log, queried, artifacts, smtp_sessions,
                   printed>>

\* mutant of DemoWrite: no return at the end of the demo branch
DemoWriteFallsThrough ==
    /\ pc = "demo_write"
    /\ demo_log' = Append(demo_log, "render")
    /\ \/ /\ artifacts' = artifacts \cup {DemoFile}
          /\ outcome' = outcome
          /\ pc' = "loop"
       \/ /\ artifacts' = artifacts
          /\ outcome' = "raised"
          /\ pc' = "done"
    /\ UNCHANGED <<dataVars, buildVars, demo, date_spec, rangeVars, smtp_configured,
                   to_map, idx, any_written, log, queried, smtp_sessions,
                   printed>>

\* the demo branch: write_funnel_excel, which may raise, then return
DemoWrite ==
    /\ pc = "demo_write"
    /\ demo_log' = Append(demo_log, "render")
    /\ \/ /\ artifacts' = artifacts \cup {DemoFile}
          /\ outcome' = "returned"
       \/ /\ artifacts' = artifacts
          /\ outcome' = "raised"
    /\ pc' = "done"
    /\ UNCHANGED <<dataVars, buildVars, demo, date_spec, rangeVars, smtp_configured,
                   to_map, idx, any_written, log, queried, smtp_sessions,
                   printed>>

\* for entity_id, to_list in to_map.items(). The locals stages, otp,
\* discovery, fi_status, totals and table of the iteration before are dead
\* here (each is assigned again before it is read), so they are cleared.
LoopHead ==
    /\ pc = "loop"
    /\ IF idx < Len(to_map)
       THEN idx' = idx + 1 /\ pc' = "fetch_stage"
       ELSE idx' = idx /\ pc' = "summary"
    /\ stage_df' = BlankStage
    /\ otp_totals' = <<>>
    /\ discovery_totals' = <<>>
    /\ fi_status_df' = <<>>
    /\ totals' = NoTable
    /\ table' = NoTable
    /\ UNCHANGED <<edits, phase, demo, date_spec, rangeVars, smtp_configured,
                   to_map, any_written, log, demo_log, queried, artifacts,
                   smtp_sessions, printed, outcome>>

\* stages = fetch_stage_metrics(...); if stages.empty: skip
FetchStage ==
    /\ pc = "fetch_stage"
    /\ log' = Step(entity_id, "fetch")
    /\ queried' = IF StageQueryIssued(date_spec)
                  THEN queried \cup {entity_id} ELSE queried
    /\ \E frame \in StageAnswers(date_spec), in_range \in BOOLEAN,
          broken \in BOOLEAN :
         LET r == IF broken /\ StageQueryIssued(date_spec)
                  THEN Raise("ValueError")   \* run_sql: a body that is no JSON
                  ELSE fetch_stage_metrics(date_spec, frame, in_range)
         IN  IF Failed(r)
             THEN /\ Except(entity_id)
                  /\ stage_df' = stage_df
             ELSE /\ stage_df' = r.val
                  /\ IF IsEmptyFrame(r.val)
                     THEN /\ printed' = Note(entity_id, "No data; skipping.")
                          /\ pc' = SkipTarget.pc
                          /\ outcome' = SkipTarget.outcome
                     ELSE /\ printed' = printed
                          /\ pc' = "fetch_rest"
                          /\ outcome' = outcome
    /\ UNCHANGED <<otp_totals, discovery_totals, fi_status_df, edits,
                   buildVars, demo, date_spec, rangeVars, smtp_configured, to_map, idx,
                   any_written, demo_log, artifacts, smtp_sessions>>

\* otp, discovery and fi_status are fetched
FetchRest ==
    /\ pc = "fetch_rest"
    /\ \/ /\ \E a \in DrillSummaryFrames :
                /\ otp_totals' = a.otp
                /\ discovery_totals' = a.discovery
                /\ fi_status_df' = a.fi_status
          /\ pc' = "transform"
          /\ UNCHANGED <<printed, outcome>>
       \/ /\ Except(entity_id)               \* run_sql: a body that is no JSON
          /\ UNCHANGED <<otp_totals, discovery_totals, fi_status_df>>
    /\ UNCHANGED <<stage_df, edits, buildVars, demo, date_spec, rangeVars,
                   smtp_configured, to_map, idx, any_written, log, demo_log,
                   queried, artifacts, smtp_sessions>>

\* totals = aggregate_stages(stages); table = build_report_table(...)
TransformStep ==
    /\ pc = "transform"
    /\ LET r == Transform(stage_df, otp_totals, discovery_totals, fi_status_df)
       IN  /\ totals' = r.totals
           /\ table' = r.table
           /\ log' = IF Failed(r.totals)
                     THEN Step(entity_id, "aggregate")
                     ELSE [log EXCEPT ![entity_id] = @ \o << "aggregate", "build" >>]
           /\ IF Failed(r.table)
              THEN Except(entity_id)
              ELSE pc' = "write" /\ UNCHANGED <<printed, outcome>>
    /\ UNCHANGED <<dataVars, phase, demo, date_spec, rangeVars, smtp_configured, to_map,
                   idx, any_written, demo_log, queried, artifacts,
                   smtp_sessions>>

\* mutant of WriteStep: the mail is sent whether or not the file was written
WriteStepThenMailAnyway ==
    /\ pc = "write"
    /\ log' = Step(entity_id, "render")
    /\ \/ /\ artifacts' = artifacts \cup {entity_id}
          /\ any_written' = TRUE
          /\ printed' = Note(entity_id, "Written")
       \/ /\ printed' = Note(entity_id, "Error")
          /\ UNCHANGED <<artifacts, any_written>>
    /\ pc' = "mail"
    /\ outcome' = outcome
    /\ UNCHANGED <<dataVars, buildVars, demo, date_spec, rangeVars, smtp_configured,
                   to_map, idx, demo_log, queried, smtp_sessions>>

\* write_funnel_excel(table, out_path); any_written = True
WriteStep ==
    /\ pc = "write"
    /\ log' = Step(entity_id, "render")
    /\ \/ /\ artifacts' = artifacts \cup {entity_id}
          /\ any_written' = TRUE
          /\ printed' = Note(entity_id, "Written")
          /\ pc' = "mail"
          /\ outcome' = outcome
       \/ /\ Except(entity_id)
          /\ UNCHANGED <<artifacts, any_written>>
    /\ UNCHANGED <<dataVars, buildVars, demo, date_spec, rangeVars, smtp_configured,
                   to_map, idx, demo_log, queried, smtp_sessions>>

\* send_report_mail: False without credentials, else the transmission is
\* tried and every exception is turned into False
send_report_mail(configured, delivered) == configured /\ delivered

MailStep ==
    /\ pc = "mail"
    /\ log' = Step(entity_id, "send")
    /\ smtp_sessions' = IF smtp_configured
                        THEN smtp_sessions \cup {entity_id} ELSE smtp_sessions
    /\ \E delivered \in BOOLEAN :
         printed' = Note(entity_id,
                         IF send_report_mail(smtp_configured, delivered)
                         THEN "Email sent." ELSE "Email skipped")
    /\ pc' = "loop"
    /\ UNCHANGED <<dataVars, buildVars, demo, date_spec, rangeVars, smtp_configured,
                   to_map, idx, any_written, demo_log, queried, artifacts,
                   outcome>>

\* the final summary
Summary ==
    /\ pc = "summary"
    /\ pc' = "done"
    /\ outcome' = "returned"
    /\ UNCHANGED <<dataVars, buildVars, demo, date_spec, rangeVars, smtp_configured,
                   to_map, idx, any_written, log, demo_log, queried,
                   artifacts, smtp_sessions, printed>>

NextRun ==
    \/ Setup
    \/ DemoTransform
    \/ DemoWrite
    \/ LoopHead
    \/ FetchStage
    \/ FetchRest
    \/ TransformStep
    \/ WriteStep
    \/ MailStep
    \/ Summary

SpecRun == InitRun /\ [][NextRun]_vars

(***************************************************************************)
(* Reading the built table and the inputs it was built from                *)
(***************************************************************************)
Built == phase = "built" /\ ~Failed(totals) /\ ~Failed(table)
T == table.val
ST == totals.val

\* the stage row labelled `stage`, and the row whose dropoff cause is `cause`
StageRowOf(stage) == T[CHOOSE i \in 1..Len(T) : T[i][1] = S(stage)]
CauseRowOf(cause) == T[CHOOSE i \in 1..Len(T) : T[i][5] = S(cause)]
OkCount(stage) == StageRowOf(stage)[3].n
DropCount(cause) == CauseRowOf(cause)[6].n

\* the stage sequence, in output order
STAGE_SEQUENCE ==
    << "Consent Initiated", "FIU initiated AA Client", "Registration/Login",
       "Account Discovery", "Account Linking", "Consent Request Review",
       "Consent Artefact Delivery", "FI Request", "FI Fetch" >>

\* the position of a stage's row in the table
RowIndex(stage) == CHOOSE i \in 1..Len(T) : T[i][1] = S(stage)

\* the inputs, read directly
OtpInput(col) == IF otp_totals = <<>> THEN 0 ELSE otp_totals[1][col]
DiscoveryInput(col) ==
    IF discovery_totals = <<>> \/ discovery_totals[1][col] = NaN
    THEN 0
    ELSE discovery_totals[1][col][1]
CohortInput ==
      ST["AA_client_Initialization"] + ST["OTP_Based_Sign_in_Sign_up"]
    + ST["View_Consent_Details"] + ST["Discovery"] + ST["Linking"]
    + ST["Rejected_Consent_Requests"] + ST["Approved_Consent_Requests"]
OtherStageInput ==
      ST["FIP_Rejected_Consent_Artefacts"] + ST["FIP_Accepted_Consent_Artefacts"]
    + ST["Data_Fetch_Success"] + ST["Data_Fetch_Not_Attempted"]

\* C1: the cohort size shown in the 'Consent Initiated' row is the sum of
\* exactly the seven cohort categories of the stage totals; no other stage
\* category and no OTP, discovery or fetch-status input enters it.
C1_CohortIsSumOfSeven ==
    Built => OkCount("Consent Initiated") = CohortInput

\* C1 witness: a table built from a non-empty cohort while one of the four
\* other stage categories and some OTP, discovery or fetch-status input is
\* non-zero too.
C1_Witness ==
    /\ Built
    /\ CohortInput > 0
    /\ OtherStageInput > 0
    /\ \/ fi_status_df # <<>>
       \/ OtpInput("Total_Incorrect_OTP_Entered") > 0
       \/ DiscoveryInput("Failure") > 0

\* C2: with a cohort of 0 the builder returns a table, and every percentage
\* cell of it (summary rows, stage rows, sub-dropoff rows) is 0, whatever
\* the other inputs are.
C2_ZeroCohortZeroPercent ==
    (phase = "built" /\ ~Failed(totals) /\ CohortInput = 0)
        => /\ ~Failed(table)
           /\ \A i \in 1..Len(T) : \A j \in 1..7 :
                T[i][j].k = "pct" => T[i][j].n = 0

\* C2 witness: a table built from a cohort of 0 whose other inputs are not
\* all zero, so that a percentage of a non-zero count over 0 is asked for.
C2_Witness ==
    /\ Built
    /\ CohortInput = 0
    /\ OtherStageInput > 0
    /\ \E i \in 1..Len(T) : T[i][6].k = "count" /\ T[i][6].n # 0

\* C3 as stated: an empty fetch-status row-set makes the successful counts
\* of 'FI Request' and of 'FI Fetch' both 0, whatever the stage totals.
C3_Original ==
    (phase = "built" /\ ~Failed(totals) /\ fi_status_df = <<>>)
        => /\ ~Failed(table)
           /\ OkCount("FI Request") = 0
           /\ OkCount("FI Fetch") = 0

\* C3 amended: an empty fetch-status row-set raises no error and makes the
\* successful count of 'FI Request' 0; the successful count of 'FI Fetch'
\* is Data_Fetch_Success of the stage totals, and its dropoff the negation.
C3_EmptyFetchStatus ==
    (phase = "built" /\ ~Failed(totals) /\ fi_status_df = <<>>)
        => /\ ~Failed(table)
           /\ OkCount("FI Request") = 0
           /\ OkCount("FI Fetch") = ST["Data_Fetch_Success"]
           /\ DropCount("FIU did not received the data")
                = 0 - ST["Data_Fetch_Success"]

\* C3 witness: a table built from an empty fetch-status row-set and a
\* non-zero Data_Fetch_Success.
C3_Witness ==
    Built /\ fi_status_df = <<>> /\ ST["Data_Fetch_Success"] > 0

\* every dropoff count of the table is non-negative
AllDropoffsNonNegative ==
    \A i \in 1..Len(T) : T[i][6].k = "count" => T[i][6].n >= 0

\* C4 as stated: with all dropoff counts non-negative, the successful
\* counts of the nine stage rows, in output order, never increase.
C4_Original ==
    (Built /\ AllDropoffsNonNegative)
        => /\ \A i \in 1..(Len(STAGE_SEQUENCE) - 1) :
                /\ RowIndex(STAGE_SEQUENCE[i]) < RowIndex(STAGE_SEQUENCE[i + 1])
                /\ OkCount(STAGE_SEQUENCE[i]) >= OkCount(STAGE_SEQUENCE[i + 1])

\* C4 amended: with all dropoff counts non-negative, the successful counts
\* never increase along the five running rows (Consent Initiated, FIU
\* initiated AA Client, Registration/Login, Account Discovery, Account
\* Linking), which appear in that order, and 'FI Fetch' is at most
\* 'FI Request'.
C4_RunningCountsNonIncreasing ==
    (Built /\ AllDropoffsNonNegative)
        => /\ \A i \in 1..4 :
                /\ RowIndex(STAGE_SEQUENCE[i]) < RowIndex(STAGE_SEQUENCE[i + 1])
                /\ OkCount(STAGE_SEQUENCE[i]) >= OkCount(STAGE_SEQUENCE[i + 1])
           /\ RowIndex("FI Request") < RowIndex("FI Fetch")
           /\ OkCount("FI Request") >= OkCount("FI Fetch")

\* C4 witness: a table with non-negative dropoffs in which users are lost
\* at client initialisation and again at discovery.
C4_Witness ==
    /\ Built
    /\ AllDropoffsNonNegative
    /\ OkCount("Consent Initiated") > OkCount("FIU initiated AA Client")
    /\ OkCount("Registration/Login") > OkCount("Account Discovery")

\* C5 as stated: a stage row-set lacking one of the eleven stage columns is
\* aggregated and built without failure into a complete table.
C5_Claim ==
    (phase = "built" /\ Cardinality(StageColumnSet \ stage_df.columns) = 1)
        => /\ ~Failed(totals)
           /\ ~Failed(table)
           /\ Len(T) = 24

\* C6 as stated: an empty OTP row-set makes all three OTP sub-dropoff
\* counts 0, and an empty discovery row-set makes the discovery dropoff
\* and its four sub-dropoff counts 0.
C6_Original ==
    Built =>
        /\ otp_totals = <<>> =>
             /\ DropCount("Incorrect OTP entered") = 0
             /\ DropCount("OTP not received back") = 0
             /\ DropCount("Correct OTP entered but user dropped off") = 0
        /\ discovery_totals = <<>> =>
             /\ DropCount("User was not able to find accounts") = 0
             /\ DropCount("FIP returned 'No Records Found'") = 0
             /\ DropCount("FIP failed to send records") = 0
             /\ DropCount("Some FIP returned 'No Records Found' and some failed to send records") = 0
             /\ DropCount("FIP returned accounts, but user did not link any accounts") = 0

\* C6 amended: an empty OTP row-set makes the incorrect-OTP and the
\* OTP-not-received-back counts 0, and the third count is then the whole
\* Registration/Login dropoff, OTP_Based_Sign_in_Sign_up +
\* View_Consent_Details; an empty discovery row-set makes the discovery
\* dropoff and its four sub-dropoff counts 0.
C6_EmptyOtpOrDiscovery ==
    Built =>
        /\ otp_totals = <<>> =>
             /\ DropCount("Incorrect OTP entered") = 0
             /\ DropCount("OTP not received back") = 0
             /\ DropCount("Correct OTP entered but user dropped off")
                  = ST["OTP_Based_Sign_in_Sign_up"] + ST["View_Consent_Details"]
        /\ discovery_totals = <<>> =>
             /\ DropCount("User was not able to find accounts") = 0
             /\ DropCount("FIP returned 'No Records Found'") = 0
             /\ DropCount("FIP failed to send records") = 0
             /\ DropCount("Some FIP returned 'No Records Found' and some failed to send records") = 0
             /\ DropCount("FIP returned accounts, but user did not link any accounts") = 0

\* C6 witness: a table built from empty OTP and discovery row-sets while
\* users dropped at both sign-in and consent details.
C6_Witness ==
    /\ Built
    /\ otp_totals = <<>>
    /\ discovery_totals = <<>>
    /\ ST["OTP_Based_Sign_in_Sign_up"] > 0
    /\ ST["View_Consent_Details"] > 0

\* C9: the Registration/Login dropoff is OTP_Based_Sign_in_Sign_up +
\* View_Consent_Details, its three sub-counts sum to it, and the third is
\* the unclamped residual (OTP_Based_Sign_in_Sign_up - incorrect -
\* not-entered) + View_Consent_Details.
C9_AuthDropDecomposition ==
    Built =>
        /\ DropCount("User was not authenticated")
             = ST["OTP_Based_Sign_in_Sign_up"] + ST["View_Consent_Details"]
        /\ DropCount("Incorrect OTP entered")
             = OtpInput("Total_Incorrect_OTP_Entered")
        /\ DropCount("OTP not received back")
             = OtpInput("Total_OTP_Not_Entered")
        /\ DropCount("Correct OTP entered but user dropped off")
             = (ST["OTP_Based_Sign_in_Sign_up"]
                  - OtpInput("Total_Incorrect_OTP_Entered")
                  - OtpInput("Total_OTP_Not_Entered"))
               + ST["View_Consent_Details"]
        /\ DropCount("Incorrect OTP entered")
             + DropCount("OTP not received back")
             + DropCount("Correct OTP entered but user dropped off")
             = DropCount("User was not authenticated")

\* C9 witness: a table whose residual sub-count is negative.
C9_Witness ==
    Built /\ DropCount("Correct OTP entered but user dropped off") < 0

\* C10: the Account Discovery dropoff is the sum of the five discovery
\* categories and the sum of the four sub-dropoff rows beneath it; the
\* 'returned accounts but user did not link' row is Account_Discovered +
\* FIP_Not_Selected.
C10_DiscoveryDropDecomposition ==
    Built =>
        /\ DropCount("User was not able to find accounts")
             = DiscoveryInput("Account_Discovered")
               + DiscoveryInput("Account_not_Found")
               + DiscoveryInput("FIP_Not_Selected")
               + DiscoveryInput("Failure")
               + DiscoveryInput("NO_STATUS")
        /\ DropCount("User was not able to find accounts")
             = DropCount("FIP returned 'No Records Found'")
               + DropCount("FIP failed to send records")
               + DropCount("Some FIP returned 'No Records Found' and some failed to send records")
               + DropCount("FIP returned accounts, but user did not link any accounts")
        /\ DropCount("FIP returned accounts, but user did not link any accounts")
             = DiscoveryInput("Account_Discovered")
               + DiscoveryInput("FIP_Not_Selected")

\* C10 witness: a table built from a discovery row with discovered accounts
\* and with FIPs not selected.
C10_Witness ==
    /\ Built
    /\ DiscoveryInput("Account_Discovered") > 0
    /\ DiscoveryInput("FIP_Not_Selected") > 0

(***************************************************************************)
(* run(): claims                                                           *)
(***************************************************************************)
\* how many times `name` occurs in a sequence of step names
RECURSIVE Occurrences(_, _)
Occurrences(q, name) ==
    IF q = <<>> THEN 0
    ELSE (IF Head(q) = name THEN 1 ELSE 0) + Occurrences(Tail(q), name)

Configured == { to_map[i] : i \in 1..Len(to_map) }

\* C7 as stated: with a date spec whose tokens cannot be parsed, a normal
\* run over a non-empty recipient directory processes no entity (nothing is
\* queried, written, mailed or reported per entity) and does not return:
\* the error leaves run().
C7_Claim ==
    (~demo /\ ~date_spec.ok /\ to_map # <<>>)
        => /\ outcome # "returned"
           /\ queried = {}
           /\ artifacts = {}
           /\ smtp_sessions = {}
           /\ \A e \in Entities : printed[e] = <<>>

\* C8: in normal mode, once the loop is entered, no outcome of an entity
\* (skip, exception in fetch, aggregation, building or rendering, mail
\* failure) leaves run() or stops it: every entity before the loop position
\* has been attempted exactly once, none after it has been attempted, an
\* entity outside the directory never is, a step is always possible until
\* run() ends, and run() ends by returning after the final summary with all
\* entities attempted.
C8_EveryEntityAttemptedOnce ==
    (~demo /\ pc # "start" /\ ~(pc = "done" /\ idx = 0 /\ outcome = "raised"))
        => /\ outcome # "raised"
           /\ \A i \in 1..Len(to_map) :
                Occurrences(log[to_map[i]], "fetch")
                  = IF i < idx \/ (i = idx /\ pc # "fetch_stage") THEN 1 ELSE 0
           /\ \A e \in Entities \ Configured : log[e] = <<>>
           /\ outcome = "running" => ENABLED NextRun
           /\ pc = "done" => /\ outcome = "returned"
                             /\ idx = Len(to_map)

\* C8 witness: run() has returned after two entities, the first of which
\* was skipped or failed and the second of which got its artifact written.
C8_Witness ==
    /\ ~demo
    /\ pc = "done"
    /\ outcome = "returned"
    /\ Len(to_map) >= 2
    /\ printed[to_map[1]] \in { << "Error" >>, << "No data; skipping." >> }
    /\ to_map[2] \in artifacts

(***************************************************************************)
(* Percentages                                                             *)
(***************************************************************************)
\* Sign of fl(n / t) - n / t, for n, t > 0
DoubleQuotientError(n, t) == Sign(DoubleDivide(n, t).err)

\* round(100 * count / cohort, 1), in tenths of a percent (cohort > 0): one
\* division of two integers, then round()
RoundedPositiveShare(count, cohort) ==
    RoundDouble(1000 * count, cohort, DoubleQuotientError(100 * count, cohort))
RoundedShare(count, cohort) ==
    IF count = 0 THEN 0
    ELSE IF count > 0 THEN RoundedPositiveShare(count, cohort)
    ELSE 0 - RoundedPositiveShare(0 - count, cohort)

\* the columns of the table holding counts; the percentage is one to the right
CountColumns == {3, 6}

\* C11 as stated: for a cohort above 0, the percentage next to every count
\* of the table equals round(100 * count / cohort, 1), and the two summary
\* percentages are those of Approved_Consent_Requests and of
\* Data_Fetch_Success.
C11_Claim ==
    (Built /\ CohortInput > 0) =>
        /\ \A i \in 1..Len(T) : \A j \in CountColumns :
              T[i][j].k = "count"
                  => T[i][j + 1] = P(RoundedShare(T[i][j].n, CohortInput))
        /\ T[2][2] = P(RoundedShare(ST["Approved_Consent_Requests"], CohortInput))
        /\ T[3][2] = P(RoundedShare(ST["Data_Fetch_Success"], CohortInput))

(***************************************************************************)
(* Ranges                                                                  *)
(***************************************************************************)
\* the day number of a datetime in the proleptic Gregorian calendar, and
\* the number of its month, each by a closed formula
DaysBeforeMonth == << 0, 31, 59, 90, 120, 151, 181, 212, 243, 273, 304, 334 >>
Ordinal(dt) ==
    LET y == dt.year - 1
    IN  365 * y + (y \div 4) - (y \div 100) + (y \div 400)
        + DaysBeforeMonth[dt.month]
        + (IF dt.month > 2 /\ IsLeap(dt.year) THEN 1 ELSE 0)
        + dt.day
MonthNumber(year, month) == 12 * year + month

RangeStart == strptime(date_spec.start).val
RangeEnd == strptime(date_spec.end).val

\* a range of two dates with start <= end was given
ProperRange ==
    /\ pc = "idle" /\ date_spec.form = "range"
    /\ ~Failed(strptime(date_spec.start))
    /\ ~Failed(strptime(date_spec.end))
    /\ Le(RangeStart, RangeEnd)

\* _date_range returned exactly the days start..end, ascending
DaysExactly ==
    /\ ~Failed(dates)
    /\ Len(dates.val) = Ordinal(RangeEnd) - Ordinal(RangeStart) + 1
    /\ \A i \in 1..Len(dates.val) :
         /\ ~Failed(strptime(dates.val[i]))
         /\ Ordinal(strptime(dates.val[i]).val) = Ordinal(RangeStart) + i - 1
    /\ (date_spec.start = date_spec.end => dates.val = << date_spec.start >>)

\* _month_prefixes returned exactly the months start..end touches, ascending
MonthsExactly ==
    /\ ~Failed(prefixes)
    /\ Len(prefixes.val) = MonthNumber(RangeEnd.year, RangeEnd.month)
                           - MonthNumber(RangeStart.year, RangeStart.month) + 1
    /\ \A j \in 1..Len(prefixes.val) :
         /\ prefixes.val[j].mm \in 1..12
         /\ MonthNumber(prefixes.val[j].yyyy, prefixes.val[j].mm)
              = MonthNumber(RangeStart.year, RangeStart.month) + j - 1
    /\ (date_spec.start = date_spec.end => Len(prefixes.val) = 1)

\* C12 as stated: for every range with start <= end, _date_range returns
\* exactly the days from start to end and _month_prefixes exactly the months
\* the range touches, each ascending without gap or duplicate, and one unit
\* each when start = end.
C12_Original ==
    ProperRange =>
        /\ (dates # NotCalled => DaysExactly)
        /\ (prefixes # NotCalled => MonthsExactly)

\* the last day and the last month a datetime can hold
EndsOnLastDay == RangeEnd = [year |-> MAXYEAR, month |-> 12, day |-> 31]
EndsInLastMonth == RangeEnd.year = MAXYEAR /\ RangeEnd.month = 12

\* Every other range is resolved as the claim says, and these two cases
\* end in OverflowError
ResolversCoverRangeBelowLimit ==
    ProperRange =>
        /\ (dates # NotCalled =>
              IF EndsOnLastDay THEN dates = Raise("OverflowError")
              ELSE DaysExactly)
        /\ (prefixes # NotCalled =>
              IF EndsInLastMonth THEN prefixes = Raise("OverflowError")
              ELSE MonthsExactly)

\* both resolvers returned for a range from January over 29 February 2024
\* into March
C12_Witness ==
    /\ ProperRange
    /\ dates # NotCalled /\ ~Failed(dates)
    /\ prefixes # NotCalled /\ ~Failed(prefixes)
    /\ Len(prefixes.val) = 3
    /\ \E i \in 1..Len(dates.val) :
         dates.val[i] = [dd |-> 29, mm |-> 2, yyyy |-> 2024]

(***************************************************************************)
(* A range of one day against the day itself                               *)
(***************************************************************************)
\* the range "d -> d" was fetched
OneDayRangeFetched ==
    /\ fetched # "no"
    /\ date_spec.form = "range"
    /\ date_spec.start = date_spec.end

\* the same day in single-day form
SameDay == SingleSpec(date_spec.start)

RowsOf(rowset) == { rowset[i] : i \in 1..Len(rowset) }

\* C13 as stated: on the same data source, the range "d -> d" yields the
\* same four aggregated row-sets (stage, OTP, discovery, fetch status), and
\* so the same table, as the single day "d".
C13_Claim ==
    OneDayRangeFetched =>
        /\ (fetched = "error") = Failed(FetchStageMetrics(drill, SameDay))
        /\ (fetched = "empty")
             = IsEmptyFrame(FetchStageMetrics(drill, SameDay).val)
        /\ fetched = "ok" =>
             /\ aggregate_stages(stage_df)
                  = aggregate_stages(FetchStageMetrics(drill, SameDay).val)
             /\ otp_totals = FetchOtpTotals(drill, SameDay).val
             /\ discovery_totals = FetchDiscoveryTotals(drill, SameDay).val
             /\ RowsOf(fi_status_df)
                  = RowsOf(FetchFiStatusCounts(drill, SameDay).val)
        /\ phase = "built" =>
             table = Transform(FetchStageMetrics(drill, SameDay).val,
                               FetchOtpTotals(drill, SameDay).val,
                               FetchDiscoveryTotals(drill, SameDay).val,
                               FetchFiStatusCounts(drill, SameDay).val).table

\* the month of the day has an export for some day
MonthHasExport ==
    \E d \in drill : d.mm = date_spec.start.mm /\ d.yyyy = date_spec.start.yyyy

\* Where the month of d has an export the two forms do agree
OneDayRangeAgreesWhereMonthHasExport == MonthHasExport => C13_Claim

\* the table of "d -> d" was built from a data source that also holds the
\* day before d in the same month
C13_Witness ==
    /\ OneDayRangeFetched
    /\ fetched = "ok" /\ Built
    /\ Cardinality({ d \in drill : d.mm = date_spec.start.mm }) = 2

(***************************************************************************)
(* Demo mode and the order of the steps                                    *)
(***************************************************************************)
DemoSteps == << "mock", "aggregate", "build", "render" >>

\* C14: in demo mode run() never queries the data source and never opens a
\* mail session, whatever the recipient directory and the configuration are;
\* it processes no entity, writes no file but the demo report, and when it
\* returns it has written exactly that one file, built from the synthetic
\* row-sets (cohort 7700, 16.2% approved, 10.6% fetched).
C14_DemoMakesNoNetworkCall ==
    demo =>
        /\ queried = {}
        /\ smtp_sessions = {}
        /\ artifacts \subseteq {DemoFile}
        /\ \A e \in Entities : log[e] = <<>> /\ printed[e] = <<>>
        /\ outcome = "returned" =>
             /\ artifacts = {DemoFile}
             /\ demo_log = DemoSteps
             /\ stage_df = get_mock_funnel_data.stage_df
             /\ otp_totals = get_mock_funnel_data.otp_df
             /\ discovery_totals = get_mock_funnel_data.discovery_df
             /\ fi_status_df = get_mock_funnel_data.fi_status_df
             /\ ~Failed(table)
             /\ table.val[7][3] = N(7700)
             /\ table.val[2][2] = P(162)
             /\ table.val[3][2] = P(106)

\* C14 witness: the demo run has returned with mail configured and two
\* entities in the recipient directory
C14_Witness ==
    /\ demo
    /\ outcome = "returned"
    /\ smtp_configured
    /\ Len(to_map) = 2
    /\ artifacts = {DemoFile}

ENTITY_STEPS == << "fetch", "aggregate", "build", "render", "send" >>

\* the notices that end an iteration
SkipNotice == "No data; skipping."
FinalNotices == { SkipNotice, "Error", "Email sent.", "Email skipped" }

Noted(e, text) == \E i \in 1..Len(printed[e]) : printed[e][i] = text
SendAttempted(e) == \E i \in 1..Len(log[e]) : log[e][i] = "send"

\* C15: in normal mode the steps of an entity are taken in the order fetch,
\* aggregate, build, render, send, and an entity is finished before the
\* next one begins: the entities after the loop position are untouched and
\* those before it have had their final notice. A send is attempted only
\* when all four steps before it were taken and the entity's file was
\* written; a mail session is opened only by an attempted send; an entity
\* that was skipped or met an error never has a send attempted.
C15_EntityStepsInOrder ==
    ~demo =>
        \A k \in 1..Len(to_map) :
            LET e == to_map[k]
            IN  /\ Len(log[e]) <= Len(ENTITY_STEPS)
                /\ log[e] = SubSeq(ENTITY_STEPS, 1, Len(log[e]))
                /\ k > idx => log[e] = <<>> /\ printed[e] = <<>>
                /\ k < idx =>
                     /\ printed[e] # <<>>
                     /\ printed[e][Len(printed[e])] \in FinalNotices
                /\ SendAttempted(e) =>
                     /\ log[e] = ENTITY_STEPS
                     /\ e \in artifacts
                     /\ printed[e][1] = "Written"
                /\ e \in smtp_sessions => SendAttempted(e)
                /\ (Noted(e, SkipNotice) \/ Noted(e, "Error")) =>
                     /\ ~SendAttempted(e)
                     /\ e \notin smtp_sessions

\* C15 witness: the first entity met an error after its fetch, the second
\* was taken through all five steps and its mail session was opened
C15_Witness ==
    /\ ~demo
    /\ Len(to_map) = 2
    /\ pc = "done"
    /\ Noted(to_map[1], "Error")
    /\ Len(log[to_map[1]]) > 1
    /\ log[to_map[2]] = ENTITY_STEPS
    /\ to_map[2] \in smtp_sessions

====
